---------------------------- MODULE Spec2Model ----------------------------
(***************************************************************************)
(* Model of the data pipeline of wsp-msg-automation:                       *)
(*   clean_data -> filter_data_by_user_type -> process_data_by_type        *)
(*   (filter_data_by_day, process_data, add_message_column) -> pd.concat   *)
(* as driven by get_info_of_customers (src/modules/data_processing.py).    *)
(*                                                                         *)
(* Representation.                                                         *)
(*  - A Python str is a sequence of one-character strings; a character     *)
(*    outside ASCII is written by its code point ("U+00ED").               *)
(*  - pd.NA is the cell NA, float('nan') is the cell NaN; neither is a     *)
(*    sequence of characters, so neither equals any str.                   *)
(*  - A DataFrame is [columns, index, data]: the ordered column labels,    *)
(*    the row labels, and one function column -> cell per row.             *)
(*  - An exception is [type, msg, cols]: msg is the chain of message       *)
(*    prefixes the nested "except ... raise ValueError(f'...: {e}')"       *)
(*    handlers build, outermost first.                                     *)
(*                                                                         *)
(* pandas semantics are those of the object-dtype string columns that      *)
(* DataFrame(list_of_lists, columns=...) builds (pandas 1.x / 2.x).        *)
(***************************************************************************)
EXTENDS Integers, Sequences, FiniteSets, TLC

VARIABLES
    df,                 \* raw customer table: DataFrame(data[3:], columns=data[2])
    df_sellers,         \* owner reference table (range 'Vendedores')
    user_type,          \* mode handed to filter_data_by_user_type
    index_day,          \* day indicator handed to filter_data_by_day
    message_day,        \* day phrase handed to add_message_column
    pc,                 \* position in get_info_of_customers
    df_cleaned,         \* result of clean_data
    data_by_type,       \* result of filter_data_by_user_type (dict, insertion order)
    processed_data,     \* dict built by process_data_by_type
    df_grouped,         \* process_data's intermediate table of the last call
    result_df,          \* the table get_info_of_customers returns
    error,              \* the exception that ended the run, if any
    calls,              \* the stage calls of the last step: argument before
                        \* and after the call, and what the call gave back
    customers_bgl,      \* main.py: the records of owner BGL
    customers_sag,      \* main.py: the records of owner SAG
    answer,             \* main.py: what the confirmation dialog returned
    events              \* main.py: dialogs, browser launches, log entries, in order

vars == <<df, df_sellers, user_type, index_day, message_day, pc, df_cleaned,
          data_by_type, processed_data, df_grouped, result_df, error, calls,
          customers_bgl, customers_sag, answer, events>>

-----------------------------------------------------------------------------
(* Sequences and Python strings                                            *)

Range(s) == {s[i] : i \in DOMAIN s}

\* the positions of s, in order, whose element is in the set keep
RECURSIVE PositionsIn(_, _, _)
PositionsIn(n, i, keep) ==
    IF i > n THEN <<>>
    ELSE (IF i \in keep THEN <<i>> ELSE <<>>) \o PositionsIn(n, i + 1, keep)

\* s restricted to the positions in keep, order preserved
Pick(s, keep) ==
    LET p == PositionsIn(Len(s), 1, keep) IN [k \in DOMAIN p |-> s[p[k]]]

\* str.join: the elements of parts with sep between neighbours
RECURSIVE Join(_, _)
Join(parts, sep) ==
    IF parts = <<>> THEN <<>>
    ELSE IF Len(parts) = 1 THEN parts[1]
    ELSE parts[1] \o sep \o Join(Tail(parts), sep)

NA == <<"<NA>">>
NaN == <<"nan">>
IsNA(cell) == cell = NA \/ cell = NaN

Whitespace == {" "}

\* characters in ascending code point order; Ord is the rank of a character
CodePointOrder ==
    <<" ", "$", "&", "*", "+", ",", "-", ".",
      "0", "1", "2", "3", "4", "5", "6", "7", "8", "9", ":", "?",
      "A", "B", "C", "D", "E", "F", "G", "H", "I", "J", "K", "L", "M",
      "N", "O", "P", "Q", "R", "S", "T", "U", "V", "W", "X", "Y", "Z", "_",
      "a", "b", "c", "d", "e", "f", "g", "h", "i", "j", "k", "l", "m",
      "n", "o", "p", "q", "r", "s", "t", "u", "v", "w", "x", "y", "z",
      "U+00BF", "U+00ED", "U+00F1", "U+25AA", "U+FE0F">>

Ord(c) == CHOOSE k \in DOMAIN CodePointOrder : CodePointOrder[k] = c

\* Python's str < str: lexicographic by code point, a proper prefix is smaller
RECURSIVE StrLess(_, _)
StrLess(a, b) ==
    IF b = <<>> THEN FALSE
    ELSE IF a = <<>> THEN TRUE
    ELSE IF Head(a) = Head(b) THEN StrLess(Tail(a), Tail(b))
    ELSE Ord(Head(a)) < Ord(Head(b))

\* tuple > tuple: the order of a descending sort
RECURSIVE KeyGreater(_, _)
KeyGreater(k1, k2) ==
    IF k1 = <<>> \/ k2 = <<>> THEN FALSE
    ELSE IF Head(k1) = Head(k2) THEN KeyGreater(Tail(k1), Tail(k2))
    ELSE StrLess(Head(k2), Head(k1))

\* Python's tuple < tuple over tuples of str of one length
RECURSIVE KeyLess(_, _)
KeyLess(k1, k2) ==
    IF k1 = <<>> \/ k2 = <<>> THEN FALSE
    ELSE IF Head(k1) = Head(k2) THEN KeyLess(Tail(k1), Tail(k2))
    ELSE StrLess(Head(k1), Head(k2))

-----------------------------------------------------------------------------
(* Exceptions and results                                                  *)

NoError == [type |-> "", msg |-> <<>>, cols |-> <<>>]
NoFrame == [columns |-> <<>>, index |-> <<>>, data |-> <<>>]

ValueError(m) == [type |-> "ValueError", msg |-> <<m>>, cols |-> <<>>]
KeyError(m, columns) == [type |-> "KeyError", msg |-> <<m>>, cols |-> columns]
TypeError(m) == [type |-> "TypeError", msg |-> <<m>>, cols |-> <<>>]

\* raise ValueError(f"{prefix}: {str(e)}")
Wrap(prefix, e) == [type |-> "ValueError", msg |-> <<prefix>> \o e.msg, cols |-> e.cols]

Return(frame) == [ok |-> TRUE, df |-> frame, error |-> NoError]
Raise(e) == [ok |-> FALSE, df |-> NoFrame, error |-> e]

-----------------------------------------------------------------------------
(* DataFrame                                                               *)

HasColumn(frame, col) == col \in Range(frame.columns)

\* an emptiness test that looks at the rows only
NoRows(frame) == Len(frame.index) = 0

\* DataFrame.empty: any axis of length 0
Empty(frame) == Len(frame.columns) = 0 \/ Len(frame.index) = 0

\* frame[cols]
SelectColumns(frame, cols) ==
    [columns |-> cols,
     index |-> frame.index,
     data |-> [i \in DOMAIN frame.data |-> [c \in Range(cols) |-> frame.data[i][c]]]]

\* frame.drop(columns=cols)
DropColumns(frame, cols) ==
    LET kept == Pick(frame.columns,
                     {k \in DOMAIN frame.columns : frame.columns[k] \notin cols})
    IN SelectColumns(frame, kept)

\* frame.rename(columns=mapping): labels absent from the mapping are kept
RenameColumns(frame, mapping) ==
    LET new(c) == IF c \in DOMAIN mapping THEN mapping[c] ELSE c IN
    [columns |-> [k \in DOMAIN frame.columns |-> new(frame.columns[k])],
     index |-> frame.index,
     data |-> [i \in DOMAIN frame.data |->
                  [c \in {new(x) : x \in Range(frame.columns)} |->
                      frame.data[i][CHOOSE x \in Range(frame.columns) : new(x) = c]]]]

\* frame[mask]: the rows at the positions in keep, with their labels
SelectRows(frame, keep) ==
    [columns |-> frame.columns,
     index |-> Pick(frame.index, keep),
     data |-> Pick(frame.data, keep)]

\* a selection that keeps every row
EveryRow(frame, col, value) == frame

\* frame[frame[col] == value]
WhereEquals(frame, col, value) ==
    SelectRows(frame, {i \in DOMAIN frame.data : frame.data[i][col] = value})

-----------------------------------------------------------------------------
(* utils/functions.py                                                      *)

\* a TELEFONO made of the two texts with nothing between them
set_telefono_unspaced(frame) ==
    [columns |-> IF HasColumn(frame, "TELEFONO") THEN frame.columns
                 ELSE Append(frame.columns, "TELEFONO"),
     index |-> frame.index,
     data |-> [i \in DOMAIN frame.data |->
                  [c \in Range(frame.columns) \cup {"TELEFONO"} |->
                      IF c = "TELEFONO"
                      THEN frame.data[i]["INDICATIVO"] \o frame.data[i]["CONTACTO"]
                      ELSE frame.data[i][c]]]]

\* line 25: df['TELEFONO'] = INDICATIVO + ' ' + CONTACTO (both already str),
\* set in the table handed in, as its last column
set_telefono(frame) ==
    [columns |-> IF HasColumn(frame, "TELEFONO") THEN frame.columns
                 ELSE Append(frame.columns, "TELEFONO"),
     index |-> frame.index,
     data |-> [i \in DOMAIN frame.data |->
                  [c \in Range(frame.columns) \cup {"TELEFONO"} |->
                      IF c = "TELEFONO"
                      THEN frame.data[i]["INDICATIVO"] \o <<" ">>
                               \o frame.data[i]["CONTACTO"]
                      ELSE frame.data[i][c]]]]

\* lines 18-19: the required columns the table lacks
missing_phone_columns(frame) ==
    Pick(<<"INDICATIVO", "CONTACTO">>,
         {k \in 1..2 : ~HasColumn(frame, <<"INDICATIVO", "CONTACTO">>[k])})

\* add_phone_column(df): the table it returns is df.drop(columns=...), a new
\* table without the two source columns
add_phone_column(frame) ==
    IF missing_phone_columns(frame) # <<>>
    THEN Raise(KeyError("Missing required columns", missing_phone_columns(frame)))
    ELSE Return(DropColumns(set_telefono(frame), {"INDICATIVO", "CONTACTO"}))

\* the table handed to add_phone_column, after the call: line 25 assigns the
\* new column into it, line 22 raises before that
add_phone_column_inplace(frame) ==
    IF missing_phone_columns(frame) # <<>> THEN frame ELSE set_telefono(frame)

-----------------------------------------------------------------------------
(* modules/data_cleaning.py                                                *)

\* Series.replace('', pd.NA) on one cell
replace_empty_with_NA(cell) == IF cell = <<>> THEN NA ELSE cell

\* a replacement that removes a leading '$' only
strip_leading_dollar(cell) ==
    IF IsNA(cell) THEN cell
    ELSE IF cell # <<>> /\ Head(cell) = "$" THEN Tail(cell)
    ELSE cell

\* Series.str.replace('$', '') on one cell: every '$' is removed (the pattern
\* is one literal character); a missing cell stays missing.
str_replace_dollar(cell) ==
    IF IsNA(cell) THEN cell
    ELSE Pick(cell, {k \in DOMAIN cell : cell[k] # "$"})

Digits == <<"0", "1", "2", "3", "4", "5", "6", "7", "8", "9">>
DigitValue(c) == (CHOOSE k \in DOMAIN Digits : Digits[k] = c) - 1

RECURSIVE DigitsToNat(_)
DigitsToNat(s) ==
    IF s = <<>> THEN 0
    ELSE 10 * DigitsToNat(SubSeq(s, 1, Len(s) - 1)) + DigitValue(s[Len(s)])

\* str.strip(): text without its leading and trailing blanks
strip(text) ==
    LET solid == {k \in DOMAIN text : text[k] \notin Whitespace} IN
    IF solid = {} THEN <<>>
    ELSE SubSeq(text, CHOOSE k \in solid : \A j \in solid : k <= j,
                      CHOOSE k \in solid : \A j \in solid : k >= j)

\* an unsigned float literal: digits [. digits] or . digits
float_literal(body) ==
    /\ \A k \in DOMAIN body : body[k] \in Range(Digits) \cup {"."}
    /\ Cardinality({k \in DOMAIN body : body[k] = "."}) <= 1
    /\ \E k \in DOMAIN body : body[k] \in Range(Digits)

\* the float a literal denotes: sign * num / 10^scale
float_value(neg, body) ==
    [ok |-> TRUE,
     neg |-> neg,
     num |-> DigitsToNat(Pick(body, {k \in DOMAIN body : body[k] \in Range(Digits)})),
     scale |-> IF \E k \in DOMAIN body : body[k] = "."
               THEN Len(body) - (CHOOSE k \in DOMAIN body : body[k] = ".")
               ELSE 0]

FloatError == [ok |-> FALSE, neg |-> FALSE, num |-> 0, scale |-> 0]

parse_float(stripped) ==
    IF stripped # <<>> /\ stripped[1] \in {"+", "-"}
    THEN IF float_literal(Tail(stripped))
         THEN float_value(stripped[1] = "-", Tail(stripped)) ELSE FloatError
    ELSE IF float_literal(stripped) THEN float_value(FALSE, stripped) ELSE FloatError

\* Python's float(text) for text over digits, '.', '+', '-', blanks and
\* characters that occur in no float literal: surrounding blanks are
\* stripped, then [sign] digits [. digits] or [sign] . digits is a number,
\* anything else raises ValueError.
python_float(text) == parse_float(strip(text))

FloatNaN == [ok |-> TRUE, neg |-> FALSE, num |-> -1, scale |-> 0]

\* one element of Series.astype(float) on an object column: float(pd.NA)
\* raises TypeError, float(str) parses or raises ValueError
astype_float(cell) ==
    IF cell = NA THEN FloatError
    ELSE IF cell = NaN THEN FloatNaN
    ELSE python_float(cell)

\* value > 0 on a float (False for nan)
GreaterThanZero(f) == f # FloatNaN /\ ~f.neg /\ f.num > 0

\* map_corte without the pd.NA key of the dict
map_corte_without_NA(cell) ==
    IF cell = <<"T", "R", "U", "E">> THEN "True"
    ELSE IF cell = <<"F", "A", "L", "S", "E">> THEN "False"
    ELSE "nan"

\* Series.map({'TRUE': True, 'FALSE': False, pd.NA: False}) on one cell: a
\* cell that is no key of the dict maps to nan
map_corte(cell) ==
    IF cell = <<"T", "R", "U", "E">> THEN "True"
    ELSE IF cell = <<"F", "A", "L", "S", "E">> THEN "False"
    ELSE IF cell = NA THEN "False"
    ELSE "nan"

\* one element of Series.astype(bool) on the mapped column: bool(nan) is True
astype_bool(mapped) == mapped # "False"

\* lines 40-48: the parsed VALOR column, or the error of the except clause
process_valor(frame) ==
    LET replaced == [i \in DOMAIN frame.data |->
                        str_replace_dollar(replace_empty_with_NA(frame.data[i]["VALOR"]))]
        floats == [i \in DOMAIN frame.data |-> astype_float(replaced[i])]
    IN IF \E i \in DOMAIN floats : ~floats[i].ok
       THEN [ok |-> FALSE, col |-> <<>>,
             error |-> ValueError("Error processing 'VALOR' column: Invalid numeric values found")]
       ELSE [ok |-> TRUE, col |-> floats, error |-> NoError]

\* lines 50-57: the parsed CORTE column (no element of it raises)
process_corte(frame) ==
    [i \in DOMAIN frame.data |->
        astype_bool(map_corte(replace_empty_with_NA(frame.data[i]["CORTE"])))]

\* df_cleaned['CORTE'] = <the parsed column>
set_corte(frame, corte) ==
    [frame EXCEPT !.data =
        [i \in DOMAIN frame.data |-> [frame.data[i] EXCEPT !["CORTE"] = corte[i]]]]

\* filter_valid with the cut flag left out of the mask
filter_valid_ignoring_corte(frame, valor) ==
    DropColumns(SelectRows(frame, {i \in DOMAIN frame.data : GreaterThanZero(valor[i])}),
                {"VALOR"})

\* lines 59-62: mask = (VALOR > 0) & (~CORTE); df_cleaned[mask].drop(columns=['VALOR'])
filter_valid(frame, valor) ==
    DropColumns(SelectRows(frame, {i \in DOMAIN frame.data :
                                      GreaterThanZero(valor[i]) /\ ~frame.data[i]["CORTE"]}),
                {"VALOR"})

\* lines 40-64 on the renamed table
parse_and_filter(renamed) ==
    IF HasColumn(renamed, "VALOR") /\ ~process_valor(renamed).ok
    THEN Raise(process_valor(renamed).error)
    ELSE IF ~HasColumn(renamed, "VALOR") \/ ~HasColumn(renamed, "CORTE")
    THEN Raise(Wrap("Error filtering data", KeyError("VALOR", <<>>)))
    ELSE Return(filter_valid(set_corte(renamed, process_corte(renamed)),
                             process_valor(renamed).col))

\* lines 36-38 and on, given the result of add_phone_column
rename_and_parse(phoned) ==
    IF ~phoned.ok THEN phoned
    ELSE parse_and_filter(RenameColumns(phoned.df,
                                        ("WSP" :> "VENDEDOR") @@ ("PLAT." :> "PLATAFORMA")))

\* lines 32-66, the body of the outer try
clean_data_body(frame, desired_columns) ==
    rename_and_parse(add_phone_column(SelectColumns(frame, desired_columns)))

\* except Exception as e: raise ValueError(f"{prefix}: {str(e)}")
Reraise(prefix, result) ==
    IF result.ok THEN result ELSE Raise(Wrap(prefix, result.error))

\* clean_data(df, desired_columns)
clean_data(frame, desired_columns) ==
    IF Empty(frame) THEN Raise(ValueError("Input DataFrame is empty"))
    ELSE IF \E k \in DOMAIN desired_columns : ~HasColumn(frame, desired_columns[k])
    THEN Raise(KeyError("Missing required columns",
                        Pick(desired_columns,
                             {k \in DOMAIN desired_columns :
                                 ~HasColumn(frame, desired_columns[k])})))
    ELSE Reraise("Error cleaning data", clean_data_body(frame, desired_columns))

-----------------------------------------------------------------------------
(* modules/data_filtering.py                                               *)

\* A dict is a sequence of [key, value] entries with distinct keys, in
\* insertion order; d[key] = value keeps the place of a key already there.
DictKeys(d) == {d[i].key : i \in DOMAIN d}

\* a store that adds an entry even for a key already there
DictAppend(d, k, v) == Append(d, [key |-> k, value |-> v])

DictSet(d, k, v) ==
    IF k \in DictKeys(d)
    THEN [i \in DOMAIN d |-> IF d[i].key = k THEN [key |-> k, value |-> v] ELSE d[i]]
    ELSE Append(d, [key |-> k, value |-> v])

DictGet(d, k) == (CHOOSE i \in DOMAIN d : d[i].key = k)

ReturnDict(d) == [ok |-> TRUE, dict |-> d, error |-> NoError]
RaiseDict(e) == [ok |-> FALSE, dict |-> <<>>, error |-> e]

\* the dict comprehension of lines 32-35 over the first n reference rows
RECURSIVE user_type_buckets(_, _, _, _, _)
user_type_buckets(df_data, df_user_type, filter_column_data, filter_column_user_type, n) ==
    IF n = 0 THEN <<>>
    ELSE LET seller == df_user_type.data[n] IN
         DictSet(user_type_buckets(df_data, df_user_type, filter_column_data,
                                   filter_column_user_type, n - 1),
                 seller["SIGLAS"],
                 WhereEquals(df_data, filter_column_data, seller[filter_column_user_type]))

\* filter_data_by_user_type(df_data, df_user_type, user_type)
filter_data_by_user_type(df_data, df_user_type, mode) ==
    LET filter_column_data == IF mode = "seller" THEN "VENDEDOR" ELSE "TELEFONO"
        filter_column_user_type == IF mode = "seller" THEN "SIGLAS" ELSE "TELEFONO"
    IN IF mode \notin {"seller", "reseller"}
       THEN RaiseDict(ValueError("user_type must be either 'seller' or 'reseller'"))
       ELSE IF ~HasColumn(df_data, filter_column_data)
       THEN RaiseDict(KeyError("Missing required column in df_data", <<filter_column_data>>))
       ELSE IF ~HasColumn(df_user_type, filter_column_user_type)
       THEN RaiseDict(KeyError("Missing required column in df_user_type",
                               <<filter_column_user_type>>))
       ELSE IF Len(df_user_type.data) > 0 /\ ~HasColumn(df_user_type, "SIGLAS")
       THEN RaiseDict(Wrap("Error filtering data by user type", KeyError("SIGLAS", <<>>)))
       ELSE ReturnDict(user_type_buckets(df_data, df_user_type, filter_column_data,
                                         filter_column_user_type, Len(df_user_type.data)))

\* a day filter that keeps the rows of every day
every_day(df_data, day) ==
    IF ~HasColumn(df_data, "DIAS")
    THEN Raise(KeyError("Missing required column: DIAS", <<"DIAS">>))
    ELSE Return(df_data)

\* filter_data_by_day(df_data, day)
filter_data_by_day(df_data, day) ==
    IF ~HasColumn(df_data, "DIAS")
    THEN Raise(KeyError("Missing required column: DIAS", <<"DIAS">>))
    ELSE Return(WhereEquals(df_data, "DIAS", day))

-----------------------------------------------------------------------------
(* modules/data_processing.py                                              *)

\* the key tuples sorted ascending, as groupby(..., sort=True) orders its groups
RECURSIVE SortedKeys(_)
SortedKeys(keys) ==
    IF keys = {} THEN <<>>
    ELSE LET least == CHOOSE k \in keys : \A other \in keys \ {k} : KeyLess(k, other)
         IN <<least>> \o SortedKeys(keys \ {least})

\* the key of a row under groupby(by)
GroupKey(row, by) == [k \in DOMAIN by |-> row[by[k]]]

\* the values with their repetitions kept
KeepAll(values) == values

\* Series.unique(): the distinct values in order of first appearance
Unique(values) ==
    Pick(values, {k \in DOMAIN values : \A j \in 1..(k - 1) : values[j] # values[k]})

\* the values of column col in the rows of frame whose key under by is key,
\* in row order
GroupValues(frame, by, key, col) ==
    LET members == {i \in DOMAIN frame.data : GroupKey(frame.data[i], by) = key}
        rows == Pick(frame.data, members)
    IN [k \in DOMAIN rows |-> rows[k][col]]

RangeIndex(n) == [k \in 1..n |-> k - 1]

ScreenSeparator == <<" ", "&", " ">>
ServiceSeparator == <<" ", "U+25AA", "U+FE0F", " ">>

\* lines 33-37: groupby(4 keys)['PANTALLA'].unique().str.join(' & ').reset_index()
\* and the SERVICIO column
group_screens(df_filtered) ==
    LET by == <<"VENDEDOR", "CLIENTE", "PLATAFORMA", "TELEFONO">>
        keys == SortedKeys({GroupKey(df_filtered.data[i], by) : i \in DOMAIN df_filtered.data})
        screens(key) == Join(Unique(GroupValues(df_filtered, by, key, "PANTALLA")),
                             ScreenSeparator)
    IN [columns |-> by \o <<"PANTALLA", "SERVICIO">>,
        index |-> RangeIndex(Len(keys)),
        data |-> [g \in DOMAIN keys |->
                    ("VENDEDOR" :> keys[g][1]) @@ ("CLIENTE" :> keys[g][2]) @@
                    ("PLATAFORMA" :> keys[g][3]) @@ ("TELEFONO" :> keys[g][4]) @@
                    ("PANTALLA" :> screens(keys[g])) @@
                    ("SERVICIO" :> <<"*">> \o keys[g][3] \o <<"*", ":", " ", "_">>
                                       \o screens(keys[g]) \o <<"_">>)]]

\* a final step that keeps one row per platform
services_per_platform(grouped) ==
    SelectColumns(grouped, <<"VENDEDOR", "CLIENTE", "TELEFONO", "SERVICIO">>)

\* line 40: groupby(3 keys)['SERVICIO'].apply(' ▪️ '.join).reset_index()
join_services(grouped) ==
    LET by == <<"VENDEDOR", "CLIENTE", "TELEFONO">>
        keys == SortedKeys({GroupKey(grouped.data[i], by) : i \in DOMAIN grouped.data})
    IN [columns |-> by \o <<"SERVICIO">>,
        index |-> RangeIndex(Len(keys)),
        data |-> [g \in DOMAIN keys |->
                    ("VENDEDOR" :> keys[g][1]) @@ ("CLIENTE" :> keys[g][2]) @@
                    ("TELEFONO" :> keys[g][3]) @@
                    ("SERVICIO" :> Join(GroupValues(grouped, by, keys[g], "SERVICIO"),
                                        ServiceSeparator))]]

\* process_data(df_filtered)
process_data(df_filtered) ==
    LET required_columns == <<"VENDEDOR", "CLIENTE", "PLATAFORMA", "TELEFONO", "PANTALLA">>
        missing_columns ==
            Pick(required_columns,
                 {k \in DOMAIN required_columns : ~HasColumn(df_filtered, required_columns[k])})
    IN IF missing_columns # <<>>
       THEN Raise(KeyError("Missing required columns", missing_columns))
       ELSE Return(join_services(group_screens(df_filtered)))

\* Series.str.split().str[0] on one cell: the first blank-delimited token,
\* nan when there is none
first_token(cell) ==
    LET solid == {k \in DOMAIN cell : cell[k] \notin Whitespace}
        start == CHOOSE k \in solid : \A j \in solid : k <= j
        stops == {k \in DOMAIN cell : k > start /\ cell[k] \in Whitespace}
        stop == IF stops = {} THEN Len(cell) + 1
                ELSE CHOOSE k \in stops : \A j \in stops : k <= j
    IN IF IsNA(cell) \/ solid = {} THEN NaN ELSE SubSeq(cell, start, stop - 1)

\* str + Series + str ...: nan if any operand is missing
Concat(parts) == IF \E k \in DOMAIN parts : IsNA(parts[k]) THEN NaN ELSE Join(parts, <<>>)

\* line 63: df_grouped['NOMBRE'] = ..., set in the table handed in
set_nombre(grouped) ==
    [columns |-> IF HasColumn(grouped, "NOMBRE") THEN grouped.columns
                 ELSE Append(grouped.columns, "NOMBRE"),
     index |-> grouped.index,
     data |-> [i \in DOMAIN grouped.data |->
                  ("NOMBRE" :> first_token(grouped.data[i]["CLIENTE"])) @@ grouped.data[i]]]

\* lines 64-72 on one row
message_text(row, day_str) ==
    Concat(<<<<"H", "o", "l", "a", ",", " ">>,
             row["NOMBRE"],
             <<".", " ", "B", "u", "e", "n", " ", "d", "U+00ED", "a", ".", " ">>,
             day_str,
             <<" ", "o", "t", "r", "o", " ", "m", "e", "s", " ", "d", "e", " ">>,
             row["SERVICIO"],
             <<".", " ", "U+00BF", "D", "e", "s", "e", "a", " ",
               "c", "o", "n", "t", "i", "n", "u", "a", "r", "?">>>>)

\* lines 64-72: df_grouped['MENSAJE'] = ..., set in the same table
set_mensaje(named, day_str) ==
    [columns |-> IF HasColumn(named, "MENSAJE") THEN named.columns
                 ELSE Append(named.columns, "MENSAJE"),
     index |-> named.index,
     data |-> [i \in DOMAIN named.data |->
                  ("MENSAJE" :> message_text(named.data[i], day_str)) @@ named.data[i]]]

\* a NOMBRE column with rows and no str in it is a float64 column of nan, and
\* 'Hola, ' + float64 raises TypeError; with a str in it the column is object
\* and the sum gives nan for its missing cells
nombre_is_float(named) ==
    Len(named.data) > 0 /\ \A i \in DOMAIN named.data : IsNA(named.data[i]["NOMBRE"])

\* add_message_column(df_grouped, day_str): the table it returns is the table
\* handed in, with the two columns set in it
add_message_column(grouped, day_str) ==
    IF ~HasColumn(grouped, "CLIENTE")
    THEN Raise(KeyError("Missing required column: CLIENTE", <<"CLIENTE">>))
    ELSE IF nombre_is_float(set_nombre(grouped))
    THEN Raise(Wrap("Error adding message column",
                    TypeError("str + float64 column")))
    ELSE IF ~HasColumn(grouped, "SERVICIO")
    THEN Raise(Wrap("Error adding message column", KeyError("SERVICIO", <<>>)))
    ELSE Return(set_mensaje(set_nombre(grouped), day_str))

\* the table handed to add_message_column, after the call
add_message_column_inplace(grouped, day_str) ==
    IF ~HasColumn(grouped, "CLIENTE") THEN grouped
    ELSE IF add_message_column(grouped, day_str).ok
    THEN add_message_column(grouped, day_str).df
    ELSE set_nombre(grouped)

\* pd.concat(frames, ignore_index=True): the rows of the frames in order, the
\* columns in order of first appearance, a cell absent from its frame is nan
RECURSIVE ConcatColumns(_)
ConcatColumns(frames) ==
    IF frames = <<>> THEN <<>>
    ELSE LET before == ConcatColumns(SubSeq(frames, 1, Len(frames) - 1))
             last == frames[Len(frames)].columns
         IN before \o Pick(last, {k \in DOMAIN last : last[k] \notin Range(before)})

RECURSIVE ConcatRows(_)
ConcatRows(frames) ==
    IF frames = <<>> THEN <<>> ELSE Head(frames).data \o ConcatRows(Tail(frames))

pd_concat(frames) ==
    LET columns == ConcatColumns(frames)
        rows == ConcatRows(frames)
    IN [columns |-> columns,
        index |-> RangeIndex(Len(rows)),
        data |-> [i \in DOMAIN rows |->
                    [c \in Range(columns) |->
                        IF c \in DOMAIN rows[i] THEN rows[i][c] ELSE NaN]]]

\* config/settings.py
DESIRED_COLUMNS ==
    <<"WSP", "PLAT.", "CORTE", "CLIENTE", "PANTALLA", "INDICATIVO", "CONTACTO",
      "VALOR", "DIAS">>
FINAL_COLUMNS == <<"VENDEDOR", "CLIENTE", "TELEFONO", "MENSAJE">>

-----------------------------------------------------------------------------
(* The run: get_info_of_customers, one action per stage                    *)

\* an outer handler that passes the error on as it is
WithoutContext(e) == e

\* lines 174-175: the outer handler of get_info_of_customers
Unexpected(e) == Wrap("Unexpected error in get_info_of_customers", e)

\* the arguments of the run, and the state of the dispatch script
arguments == <<user_type, index_day, message_day>>
dispatch == <<customers_bgl, customers_sag, answer, events>>

\* one stage call: the table handed in as it was before and as it is after
\* the call, what the call gave back, and whether the table it returned is
\* the table handed in
Call(op, before, after, result, same) ==
    [op |-> op, before |-> before, after |-> after, ok |-> result.ok,
     df |-> result.df, error |-> result.error, same |-> same]

\* lines 122-134: get_worksheet, get_all_values or get_data_by_range_name
\* fails; neither table is built
FetchFailures ==
    {[type |-> "GoogleSheetsError", msg |-> <<"Data retrieval error">>, cols |-> <<>>],
     ValueError("Invalid worksheet data: insufficient rows"),
     Wrap("Error processing sellers data",
          [type |-> "GoogleSheetsError", msg |-> <<"No data found in range">>, cols |-> <<>>])}

FetchFails ==
    /\ pc = "start"
    /\ \E e \in FetchFailures : error' = Unexpected(e)
    /\ pc' = "raised"
    /\ df' = NoFrame
    /\ df_sellers' = NoFrame
    /\ calls' = <<>>
    /\ UNCHANGED <<arguments, df_cleaned, data_by_type, processed_data, df_grouped,
                   result_df, dispatch>>

\* a caller's direct call add_phone_column(df), as data_loader.py line 104
AddPhoneColumn ==
    /\ pc = "start"
    /\ calls' = <<Call("add_phone_column", df, add_phone_column_inplace(df),
                       add_phone_column(df), FALSE)>>
    /\ df' = add_phone_column_inplace(df)
    /\ error' = add_phone_column(df).error
    /\ pc' = IF add_phone_column(df).ok THEN "phoned" ELSE "raised"
    /\ UNCHANGED <<df_sellers, arguments, df_cleaned, data_by_type, processed_data,
                   df_grouped, result_df, dispatch>>

\* a caller's direct call clean_data(df, DESIRED_COLUMNS); line 33 works on a
\* copy, so df is as it was
CleanData ==
    /\ pc = "start"
    /\ LET r == clean_data(df, DESIRED_COLUMNS) IN
         /\ df_cleaned' = r.df
         /\ error' = r.error
         /\ pc' = IF r.ok THEN "cleaned" ELSE "raised"
         /\ calls' = <<Call("clean_data", df, df, r, FALSE)>>
    /\ UNCHANGED <<df, df_sellers, arguments, data_by_type, processed_data,
                   df_grouped, result_df, dispatch>>

\* get_info_of_customers lines 137-145: the emptiness check and clean_data
clean_customer_data(frame) ==
    IF Empty(frame) THEN Raise(ValueError("No customer data found in worksheet"))
    ELSE Reraise("Error cleaning customer data", clean_data(frame, DESIRED_COLUMNS))

CleanCustomerData ==
    /\ pc = "start"
    /\ LET r == clean_customer_data(df) IN
         /\ df_cleaned' = r.df
         /\ error' = IF r.ok THEN NoError ELSE Unexpected(r.error)
         /\ pc' = IF r.ok THEN "cleaned" ELSE "raised"
         /\ calls' = IF Empty(df) THEN <<>> ELSE <<Call("clean_data", df, df, r, FALSE)>>
    /\ UNCHANGED <<df, df_sellers, arguments, data_by_type, processed_data,
                   df_grouped, result_df, dispatch>>

\* lines 147-151: filter_data_by_user_type (the entry point passes 'seller';
\* user_type lets the other modes of the operation be called too)
FilterByUserType ==
    /\ pc = "cleaned"
    /\ LET r == filter_data_by_user_type(df_cleaned, df_sellers, user_type) IN
         /\ data_by_type' = r.dict
         /\ error' = IF r.ok THEN NoError
                     ELSE Unexpected(Wrap("Error filtering data by user type", r.error))
         /\ pc' = IF r.ok THEN "filtered" ELSE "raised"
         /\ calls' = <<Call("filter_data_by_user_type", df_cleaned, df_cleaned,
                            [ok |-> r.ok, df |-> NoFrame, error |-> r.error], FALSE)>>
    /\ UNCHANGED <<df, df_sellers, arguments, df_cleaned, processed_data,
                   df_grouped, result_df, dispatch>>

\* the stage calls of one iteration of the loop of process_data_by_type
process_user_calls(data, filtered_data, processed, messaged, day_str) ==
    <<Call("filter_data_by_day", data, data, filtered_data, FALSE)>>
        \o (IF filtered_data.ok
            THEN <<Call("process_data", filtered_data.df, filtered_data.df, processed, FALSE)>>
            ELSE <<>>)
        \o (IF filtered_data.ok /\ processed.ok
            THEN <<Call("add_message_column", processed.df,
                        add_message_column_inplace(processed.df, day_str), messaged, TRUE)>>
            ELSE <<>>)

\* one iteration of the loop of process_data_by_type (lines 96-99), with the
\* handlers of lines 101-102 and 160-161 around it
ProcessUser ==
    /\ pc = "filtered"
    /\ Len(processed_data) < Len(data_by_type)
    /\ LET entry == data_by_type[Len(processed_data) + 1]
           filtered_data == filter_data_by_day(entry.value, index_day)
           processed == IF filtered_data.ok THEN process_data(filtered_data.df)
                        ELSE filtered_data
           messaged == IF processed.ok THEN add_message_column(processed.df, message_day)
                       ELSE processed
       IN /\ processed_data' = IF messaged.ok
                               THEN DictSet(processed_data, entry.key, messaged.df)
                               ELSE processed_data
          /\ df_grouped' = IF processed.ok THEN group_screens(filtered_data.df)
                           ELSE df_grouped
          /\ error' = IF messaged.ok THEN NoError
                      ELSE Unexpected(Wrap("Error processing data by type",
                                           Wrap("Error processing data by type",
                                                messaged.error)))
          /\ pc' = IF messaged.ok THEN "filtered" ELSE "raised"
          /\ calls' = process_user_calls(entry.value, filtered_data, processed, messaged,
                                         message_day)
    /\ UNCHANGED <<df, df_sellers, arguments, df_cleaned, data_by_type, result_df,
                   dispatch>>

\* a combination that hands back whatever pd.concat gives
combine_unchecked(frames) ==
    IF frames = <<>>
    THEN Raise(Wrap("Error combining processed data",
                    ValueError("No objects to concatenate")))
    ELSE Return(pd_concat(frames))

\* lines 163-170: pd.concat of the processed tables and the emptiness check
combine_processed(frames) ==
    IF frames = <<>>
    THEN Raise(Wrap("Error combining processed data",
                    ValueError("No objects to concatenate")))
    ELSE IF Empty(pd_concat(frames))
    THEN Raise(Wrap("Error combining processed data",
                    ValueError("No valid data after processing")))
    ELSE Return(pd_concat(frames))

CombineProcessed ==
    /\ pc = "filtered"
    /\ Len(processed_data) = Len(data_by_type)
    /\ LET r == combine_processed([k \in DOMAIN processed_data |-> processed_data[k].value])
       IN /\ result_df' = r.df
          /\ error' = IF r.ok THEN NoError ELSE Unexpected(r.error)
          /\ pc' = IF r.ok THEN "returned" ELSE "raised"
    /\ calls' = <<>>
    /\ UNCHANGED <<df, df_sellers, arguments, df_cleaned, data_by_type, processed_data,
                   df_grouped, dispatch>>

-----------------------------------------------------------------------------
(* main.py                                                                 *)

VEND_INI_EDGE == <<"B", "G", "L">>
VEND_INI_CHROME == <<"S", "A", "G">>

\* config('EDGE_PATH'), config('BRAVE_PATH')
WSP_BGL == "EDGE_PATH"
WSP_SAG == "BRAVE_PATH"

\* a list of the records of every owner
every_vendor(initials, df_data) == df_data.data

\* filter_data_by_vendor(initials, df_data): the records of the owner, in
\* table order
filter_data_by_vendor(initials, df_data) ==
    WhereEquals(df_data, "VENDEDOR", initials).data

\* core.check_number(number)
check_number(number) == "+" \in Range(number) \/ "_" \in Range(number)

NoCustomer == <<>>
Event(kind, browser, customer) == [kind |-> kind, browser |-> browser, customer |-> customer]

\* a send that launches the browser before it checks the country code
send_wsp_msg_launching_first(customer, browser_path) ==
    IF ~check_number(customer["TELEFONO"])
    THEN [ok |-> FALSE, events |-> <<Event("open", browser_path, customer)>>,
          error |-> [type |-> "CountryCodeException",
                     msg |-> <<"Country Code Missing in Phone Number!">>, cols |-> <<>>]]
    ELSE [ok |-> TRUE,
          events |-> <<Event("open", browser_path, customer),
                       Event("wait", browser_path, customer),
                       Event("log", browser_path, customer),
                       Event("close", browser_path, customer)>>,
          error |-> NoError]

\* send_wsp_msg(customer, close_tab_after_send=True, browser_path): the
\* country-code check, the URL (quote of a missing message raises), the
\* browser launch, the waits, the log entry, the closing of the tab
send_wsp_msg(customer, browser_path) ==
    IF ~check_number(customer["TELEFONO"])
    THEN [ok |-> FALSE, events |-> <<>>,
          error |-> [type |-> "CountryCodeException",
                     msg |-> <<"Country Code Missing in Phone Number!">>, cols |-> <<>>]]
    ELSE IF IsNA(customer["MENSAJE"])
    THEN [ok |-> FALSE, events |-> <<>>,
          error |-> TypeError("quote_from_bytes() expected bytes")]
    ELSE [ok |-> TRUE,
          events |-> <<Event("open", browser_path, customer),
                       Event("wait", browser_path, customer),
                       Event("log", browser_path, customer),
                       Event("close", browser_path, customer)>>,
          error |-> NoError]

\* the records send_messages_to_customers has gone through so far
Launched == Cardinality({k \in DOMAIN events : events[k].kind = "open"})

\* lines 204-213: the CSV file, the two lists of records, the printed lists
PrepareDispatch ==
    /\ pc = "returned"
    /\ customers_bgl' = filter_data_by_vendor(VEND_INI_EDGE, result_df)
    /\ customers_sag' = filter_data_by_vendor(VEND_INI_CHROME, result_df)
    /\ events' = Append(events, Event("csv", "", NoCustomer))
    /\ pc' = "prepared"
    /\ calls' = <<>>
    /\ UNCHANGED <<df, df_sellers, arguments, df_cleaned, data_by_type, processed_data,
                   df_grouped, result_df, error, answer>>

\* line 215: the confirmation dialog returns yes or no
ShowConfirmationDialog ==
    /\ pc = "prepared"
    /\ \E yes \in BOOLEAN :
          /\ answer' = IF yes THEN "yes" ELSE "no"
          /\ pc' = IF yes THEN "sending" ELSE "cancelled"
    /\ events' = Append(events, Event("confirm", "", NoCustomer))
    /\ UNCHANGED <<df, df_sellers, arguments, df_cleaned, data_by_type, processed_data,
                   df_grouped, result_df, error, calls, customers_bgl, customers_sag>>

\* lines 216-217 and 107-110: send_wsp_msg on the next record, the records of
\* BGL first, then those of SAG; an exception ends the script
SendWspMsg ==
    /\ pc = "sending"
    /\ Launched < Len(customers_bgl) + Len(customers_sag)
    /\ LET sent == IF Launched < Len(customers_bgl)
                   THEN send_wsp_msg(customers_bgl[Launched + 1], WSP_BGL)
                   ELSE send_wsp_msg(customers_sag[Launched + 1 - Len(customers_bgl)], WSP_SAG)
       IN /\ events' = events \o sent.events
          /\ error' = sent.error
          /\ pc' = IF sent.ok THEN "sending" ELSE "aborted"
    /\ UNCHANGED <<df, df_sellers, arguments, df_cleaned, data_by_type, processed_data,
                   df_grouped, result_df, calls, customers_bgl, customers_sag, answer>>

\* line 221: the end-of-program dialog, after the sends or after the refusal
ShowEndDialog ==
    /\ \/ pc = "cancelled"
       \/ pc = "sending" /\ Launched = Len(customers_bgl) + Len(customers_sag)
    /\ events' = Append(events, Event("end", "", NoCustomer))
    /\ pc' = "done"
    /\ UNCHANGED <<df, df_sellers, arguments, df_cleaned, data_by_type, processed_data,
                   df_grouped, result_df, error, calls, customers_bgl, customers_sag,
                   answer>>

Next ==
    \/ FetchFails
    \/ AddPhoneColumn
    \/ CleanData
    \/ CleanCustomerData
    \/ FilterByUserType
    \/ ProcessUser
    \/ CombineProcessed
    \/ PrepareDispatch
    \/ ShowConfirmationDialog
    \/ SendWspMsg
    \/ ShowEndDialog

-----------------------------------------------------------------------------
(* Inputs                                                                  *)

MaxCleanRows == 2
MaxGroupRows == 3
MaxOwnerRows == 2
MaxSellers == 2
MaxBlankRows == 2
MaxRecipients == 2

Frame(columns, rows) ==
    [columns |-> columns,
     index |-> RangeIndex(Len(rows)),
     data |-> [i \in DOMAIN rows |-> [c \in Range(columns) |-> rows[i][c]]]]

Tables(pool, n) == UNION {[1..k -> pool] : k \in 0..n}

RawRow(wsp, plat, corte, cliente, pantalla, contacto, valor, dias) ==
    ("WSP" :> wsp) @@ ("PLAT." :> plat) @@ ("CORTE" :> corte) @@
    ("CLIENTE" :> cliente) @@ ("PANTALLA" :> pantalla) @@
    ("INDICATIVO" :> <<"+", "5", "7">>) @@ ("CONTACTO" :> contacto) @@
    ("VALOR" :> valor) @@ ("DIAS" :> dias)

SellerRow(nombre, siglas, contacto) ==
    ("NOMBRE" :> nombre) @@ ("SIGLAS" :> siglas) @@
    ("INDICATIVO" :> <<"+", "5", "7">>) @@ ("CONTACTO" :> contacto)

\* the reference table as get_data_by_range_name returns it
SellersFrame(rows) ==
    add_phone_column(Frame(<<"NOMBRE", "SIGLAS", "INDICATIVO", "CONTACTO">>, rows)).df

MariaLopez == <<"M", "a", "r", "i", "a", " ", "L", "o", "p", "e", "z">>
Ana == <<"A", "n", "a">>
Contacto1 == <<"3", "0", "0", "1", "2", "3", "4", "5", "6", "7">>
Contacto2 == <<"3", "0", "0", "9", "8", "7", "6", "5", "4", "3">>
MananaEmpieza ==
    <<"M", "a", "U+00F1", "a", "n", "a", " ", "e", "m", "p", "i", "e", "z", "a">>

ValorTexts ==
    {<<"$", "1", "0">>, <<>>, <<"0">>, <<"1", "$", "0">>, <<"x">>, <<"-", "5">>}
CorteTexts ==
    {<<>>, <<"T", "R", "U", "E">>, <<"F", "A", "L", "S", "E">>, <<"y", "e", "s">>}

\* every amount with an empty cut flag, every cut flag with a valid amount,
\* and pairs where both the amount and the cut flag are out of the ordinary
CleaningCells ==
    {<<valor, <<>> >> : valor \in ValorTexts}
        \cup {<< <<"$", "1", "0">>, corte>> : corte \in CorteTexts}
        \cup {<< <<"1", "$", "0">>, <<"y", "e", "s">> >>, << <<>>, <<"T", "R", "U", "E">> >>,
               << <<"0">>, <<"F", "A", "L", "S", "E">> >>, << <<"x">>, <<"y", "e", "s">> >>}

\* rows that differ in the amount and the cut flag
CleaningRows ==
    {RawRow(<<"A", "B">>, <<"X">>, cell[2], MariaLopez, <<"H", "D">>, Contacto1,
            cell[1], <<"1">>) : cell \in CleaningCells}

\* valid rows of one owner that differ in customer, platform and screen
GroupingRows ==
    {RawRow(<<"A", "B">>, plat, <<>>, cliente, pantalla, Contacto1,
            <<"$", "1", "0">>, <<"1">>) :
        <<plat, cliente>> \in {<< <<"Z">>, MariaLopez>>, << <<"A">>, MariaLopez>>,
                               << <<"Z">>, Ana>>},
        pantalla \in {<<"H", "D">>, <<"4", "K">>}}

\* valid rows that differ in owner, phone and day
OwnerRows ==
    {RawRow(wsp, <<"X">>, <<"F", "A", "L", "S", "E">>, Ana, <<"H", "D">>, contacto,
            <<"$", "1", "0">>, dias) :
        wsp \in {<<"A", "B">>, <<"C", "D">>},
        <<contacto, dias>> \in {<<Contacto1, <<"1">> >>, <<Contacto2, <<"0">> >>}}

SellerRows ==
    {SellerRow(<<"B", "e", "a">>, <<"A", "B">>, Contacto1),
     SellerRow(<<"B", "e", "n">>, <<"A", "B">>, Contacto2),
     SellerRow(<<"C", "a", "l">>, <<"C", "D">>, Contacto1)}

OneSeller == SellersFrame(<<SellerRow(<<"B", "e", "a">>, <<"A", "B">>, Contacto2)>>)

\* tables lacking required columns, or all columns
ColumnLists ==
    {Pick(DESIRED_COLUMNS, {k \in DOMAIN DESIRED_COLUMNS : DESIRED_COLUMNS[k] \notin gone}) :
        gone \in {{"DIAS"}, {"CONTACTO", "DIAS"}, {"INDICATIVO"}, Range(DESIRED_COLUMNS)}}

\* valid rows with an empty owner, an empty or blank customer, next to a
\* usual row
BlankRows ==
    {RawRow(wsp, <<"X">>, <<>>, cliente, <<"H", "D">>, Contacto1, <<"$", "1", "0">>, <<"1">>) :
        <<wsp, cliente>> \in {<< <<"A", "B">>, Ana>>, << <<"A", "B">>, <<>> >>,
                              << <<>>, Ana>>, << <<"A", "B">>, <<" ">> >>}}

\* valid rows of the owners of main.py, one with a country code without "+"
DispatchRows ==
    {RawRow(wsp, <<"X">>, <<>>, cliente, <<"H", "D">>, Contacto1, <<"$", "1", "0">>, <<"1">>) :
        <<wsp, cliente>> \in {<<VEND_INI_EDGE, Ana>>, <<VEND_INI_EDGE, MariaLopez>>,
                              <<VEND_INI_CHROME, Ana>>}}
        \cup {[RawRow(VEND_INI_EDGE, <<"X">>, <<>>, <<"B", "o">>, <<"H", "D">>, Contacto1,
                       <<"$", "1", "0">>, <<"1">>) EXCEPT !["INDICATIVO"] = <<"5", "7">>]}

\* the reference table of main.py's owners, SAG before BGL
DispatchSellers ==
    SellersFrame(<<SellerRow(<<"S", "a", "n">>, VEND_INI_CHROME, Contacto1),
                   SellerRow(<<"B", "e", "a">>, VEND_INI_EDGE, Contacto2)>>)

InitBlank ==
    /\ df \in {Frame(DESIRED_COLUMNS, rows) : rows \in Tables(BlankRows, MaxBlankRows)}
    /\ df_sellers = OneSeller
    /\ user_type = "seller"

InitDispatch ==
    /\ df \in {Frame(DESIRED_COLUMNS, rows) : rows \in Tables(DispatchRows, MaxRecipients)}
    /\ df_sellers = DispatchSellers
    /\ user_type = "seller"

InitCleaning ==
    /\ df \in {Frame(DESIRED_COLUMNS, rows) : rows \in Tables(CleaningRows, MaxCleanRows)}
    /\ df_sellers = OneSeller
    /\ user_type = "seller"

\* a valid row, a row with an unparsable amount, a row with an odd cut flag
ColumnRows ==
    {RawRow(<<"A", "B">>, <<"X">>, corte, Ana, <<"H", "D">>, Contacto1, valor, <<"1">>) :
        <<valor, corte>> \in {<< <<"$", "1", "0">>, <<>> >>, << <<"x">>, <<>> >>,
                              << <<"$", "1", "0">>, <<"y", "e", "s">> >>}}

InitColumns ==
    /\ df \in {Frame(columns, rows) :
                 columns \in ColumnLists, rows \in Tables(ColumnRows, MaxCleanRows)}
    /\ df_sellers = OneSeller
    /\ user_type = "seller"

InitGrouping ==
    /\ df \in {Frame(DESIRED_COLUMNS, rows) : rows \in Tables(GroupingRows, MaxGroupRows)}
    /\ df_sellers = OneSeller
    /\ user_type = "seller"

InitOwners ==
    /\ df \in {Frame(DESIRED_COLUMNS, rows) : rows \in Tables(OwnerRows, MaxOwnerRows)}
    /\ df_sellers \in {SellersFrame(rows) :
                         rows \in {t \in Tables(SellerRows, MaxSellers) :
                                     /\ t # <<>>
                                     /\ \A i, j \in DOMAIN t : t[i] = t[j] => i = j}}
    /\ user_type \in {"seller", "reseller", "customer"}

Init ==
    /\ InitCleaning \/ InitColumns \/ InitGrouping \/ InitOwners \/ InitBlank
          \/ InitDispatch
    /\ index_day = <<"1">>
    /\ message_day = MananaEmpieza
    /\ pc = "start"
    /\ df_cleaned = NoFrame
    /\ data_by_type = <<>>
    /\ processed_data = <<>>
    /\ df_grouped = NoFrame
    /\ result_df = NoFrame
    /\ error = NoError
    /\ calls = <<>>
    /\ customers_bgl = <<>>
    /\ customers_sag = <<>>
    /\ answer = "none"
    /\ events = <<>>

Spec == Init /\ [][Next]_vars

-----------------------------------------------------------------------------
(* Properties                                                              *)

\* clean_data has returned a table (a returned table has its columns, even
\* with no row left)
Cleaned == df_cleaned # NoFrame

\* the cleaning step has been taken
CleanCalled == pc \notin {"start", "phoned"}

\* the amount and the cut flag of a raw row, as lines 40-57 parse them
ParsedAmount(row) ==
    astype_float(str_replace_dollar(replace_empty_with_NA(row["VALOR"])))
ParsedCut(row) == astype_bool(map_corte(replace_empty_with_NA(row["CORTE"])))

\* the positions of the raw rows with amount > 0 and cut flag false
ValidPositions ==
    {i \in DOMAIN df.data : GreaterThanZero(ParsedAmount(df.data[i])) /\ ~ParsedCut(df.data[i])}

\* the raw row labelled lbl
RawRowAt(lbl) == df.data[CHOOSE i \in DOMAIN df.index : df.index[i] = lbl]

\* C1: when clean_data returns, its rows are exactly the raw rows with parsed
\* amount > 0 and parsed cut flag false, in input order: the row labels of the
\* result are the labels of those rows in ascending position, every kept row
\* carries the fields of its raw row, and no kept row has a cut flag.
C1_CleanerKeepsExactlyValidRows ==
    Cleaned =>
        /\ df_cleaned.index = Pick(df.index, ValidPositions)
        /\ Len(df_cleaned.data) = Len(df_cleaned.index)
        /\ \A k \in DOMAIN df_cleaned.data :
              LET out == df_cleaned.data[k]
                  raw == RawRowAt(df_cleaned.index[k])
              IN /\ out["VENDEDOR"] = raw["WSP"]
                 /\ out["CLIENTE"] = raw["CLIENTE"]
                 /\ out["PLATAFORMA"] = raw["PLAT."]
                 /\ out["PANTALLA"] = raw["PANTALLA"]
                 /\ out["DIAS"] = raw["DIAS"]
                 /\ out["CORTE"] = FALSE
                 /\ raw["CORTE"] # <<"T", "R", "U", "E">>

\* C1 witness: of two raw rows, the first is dropped for its cut flag "TRUE"
\* although its amount is positive, and the second is kept
C1_Witness ==
    /\ Cleaned
    /\ Len(df.data) = 2
    /\ df.data[1]["CORTE"] = <<"T", "R", "U", "E">>
    /\ df.data[1]["VALOR"] = <<"$", "1", "0">>
    /\ df_cleaned.index = <<1>>

\* the input of the round-trip scenario of the specification
ScenarioRow ==
    RawRow(<<"A", "B">>, <<"X">>, <<>>, MariaLopez, <<"H", "D">>, Contacto1,
           <<"$", "1", "0">>, <<"1">>)

Scenario ==
    /\ df = Frame(DESIRED_COLUMNS, <<ScenarioRow>>)
    /\ user_type = "seller"
    /\ \E i \in DOMAIN df_sellers.data : df_sellers.data[i]["SIGLAS"] = <<"A", "B">>
    /\ index_day = <<"1">>
    /\ message_day = MananaEmpieza

\* C2: on the scenario input the run raises nothing, and the table it returns
\* has exactly one record, with owner "AB", customer "Maria Lopez", phone
\* "+57 3001234567" and the message "Hola, Maria. Buen dia. Manana empieza
\* otro mes de *X*: _HD_. Desea continuar?" (with its accents and its inverted
\* question mark); the empty CORTE is read as false.
C2_RoundTripScenario ==
    Scenario =>
        /\ pc # "raised"
        /\ pc = "returned" =>
              /\ Len(result_df.data) = 1
              /\ result_df.data[1]["VENDEDOR"] = <<"A", "B">>
              /\ result_df.data[1]["CLIENTE"] =
                     <<"M", "a", "r", "i", "a", " ", "L", "o", "p", "e", "z">>
              /\ result_df.data[1]["TELEFONO"] =
                     <<"+", "5", "7", " ", "3", "0", "0", "1", "2", "3", "4", "5", "6", "7">>
              /\ result_df.data[1]["MENSAJE"] =
                     <<"H", "o", "l", "a", ",", " ", "M", "a", "r", "i", "a", ".", " ",
                       "B", "u", "e", "n", " ", "d", "U+00ED", "a", ".", " ",
                       "M", "a", "U+00F1", "a", "n", "a", " ",
                       "e", "m", "p", "i", "e", "z", "a", " ",
                       "o", "t", "r", "o", " ", "m", "e", "s", " ", "d", "e", " ",
                       "*", "X", "*", ":", " ", "_", "H", "D", "_", ".", " ",
                       "U+00BF", "D", "e", "s", "e", "a", " ",
                       "c", "o", "n", "t", "i", "n", "u", "a", "r", "?">>

\* C2 witness: the scenario run has returned its table
C2_Witness == Scenario /\ pc = "returned" /\ Len(result_df.data) = 1

\* ---- grouping --------------------------------------------------------------

\* the distinct values of a sequence in order of first appearance
RECURSIVE FirstSeen(_)
FirstSeen(values) ==
    IF values = <<>> THEN <<>>
    ELSE LET front == FirstSeen(SubSeq(values, 1, Len(values) - 1))
         IN IF values[Len(values)] \in Range(front) THEN front
            ELSE Append(front, values[Len(values)])

\* the strings of a set in ascending order
Ascending(S) ==
    CHOOSE s \in [1..Cardinality(S) -> S] :
        /\ Range(s) = S
        /\ \A i, j \in DOMAIN s : i < j => StrLess(s[i], s[j])

ColumnOf(rows, col) == [i \in DOMAIN rows |-> rows[i][col]]

\* the rows of the k-th owner's table that fall on the target day
DayRows(k) ==
    Pick(data_by_type[k].value.data,
         {i \in DOMAIN data_by_type[k].value.data :
             data_by_type[k].value.data[i]["DIAS"] = index_day})

\* the rows among rows that agree with rec on the columns cols
RowsLike(rows, rec, cols) ==
    Pick(rows, {i \in DOMAIN rows : \A c \in cols : rows[i][c] = rec[c]})

CustomerKey == {"VENDEDOR", "CLIENTE", "TELEFONO"}
ScreenKey == {"VENDEDOR", "CLIENTE", "PLATAFORMA", "TELEFONO"}

\* the screens of a group of rows, each once, in order of first appearance,
\* joined with " & "
ScreensText(rows) == Join(FirstSeen(ColumnOf(rows, "PANTALLA")), ScreenSeparator)

\* the label "*platform*: _screens_" of one platform of a customer's rows
PlatformLabel(rows, plat) ==
    <<"*">> \o plat \o <<"*", ":", " ", "_">>
        \o ScreensText(RowsLike(rows, [c \in {"PLATAFORMA"} |-> plat], {"PLATAFORMA"}))
        \o <<"_">>

\* the labels of the platforms, in the given order, joined with the separator
ServiceText(rows, platforms) ==
    Join([i \in DOMAIN platforms |-> PlatformLabel(rows, platforms[i])], ServiceSeparator)

\* the loop of process_data_by_type is running or has run, without failure
Processing == pc \in {"filtered", "returned"}

\* C3 (as stated): in every processed record the platform labels follow the
\* order in which the platforms first appear among the customer's input rows.
C3_PlatformsInFirstSeenOrder ==
    Processing =>
        \A k \in DOMAIN processed_data :
            \A r \in DOMAIN processed_data[k].value.data :
                LET rec == processed_data[k].value.data[r]
                    rows == RowsLike(DayRows(k), rec, CustomerKey)
                IN rec["SERVICIO"] =
                       ServiceText(rows, FirstSeen(ColumnOf(rows, "PLATAFORMA")))

\* C3 (amended): in every processed record the platform labels follow the
\* ascending order of the platform names (the order of the sorted group
\* keys), each platform once, whatever the order of the input rows.
C3_PlatformsInAscendingOrder ==
    Processing =>
        \A k \in DOMAIN processed_data :
            \A r \in DOMAIN processed_data[k].value.data :
                LET rec == processed_data[k].value.data[r]
                    rows == RowsLike(DayRows(k), rec, CustomerKey)
                IN rec["SERVICIO"] =
                       ServiceText(rows, Ascending(Range(ColumnOf(rows, "PLATAFORMA"))))

\* C3 witness: a customer whose first input row is of platform "Z" and whose
\* second is of platform "A" has a record that lists "A" before "Z"
C3_Witness ==
    /\ Processing
    /\ Len(df.data) = 2
    /\ df.data[1]["PLAT."] = <<"Z">> /\ df.data[2]["PLAT."] = <<"A">>
    /\ df.data[1]["CLIENTE"] = df.data[2]["CLIENTE"]
    /\ df.data[1]["PANTALLA"] = <<"H", "D">> /\ df.data[2]["PANTALLA"] = <<"4", "K">>
    /\ Len(processed_data) = 1
    /\ Len(processed_data[1].value.data) = 1
    /\ processed_data[1].value.data[1]["SERVICIO"] =
           <<"*", "A", "*", ":", " ", "_", "4", "K", "_">> \o ServiceSeparator
               \o <<"*", "Z", "*", ":", " ", "_", "H", "D", "_">>

\* C4: the table grouped by (owner, customer, platform, phone) for the owner
\* processed last has one row per group of input rows, and the PANTALLA of
\* that row is the group's screens, each distinct screen once, in order of
\* first appearance, joined with " & ".
C4_ScreensOnceInFirstSeenOrder ==
    (Processing /\ Len(processed_data) > 0) =>
        LET rows == DayRows(Len(processed_data)) IN
        /\ \A i \in DOMAIN rows :
              \E g \in DOMAIN df_grouped.data :
                  \A c \in ScreenKey : df_grouped.data[g][c] = rows[i][c]
        /\ \A g, h \in DOMAIN df_grouped.data :
              (\A c \in ScreenKey : df_grouped.data[g][c] = df_grouped.data[h][c]) => g = h
        /\ \A g \in DOMAIN df_grouped.data :
              /\ RowsLike(rows, df_grouped.data[g], ScreenKey) # <<>>
              /\ df_grouped.data[g]["PANTALLA"] =
                     ScreensText(RowsLike(rows, df_grouped.data[g], ScreenKey))

\* C4 witness: a group whose rows carry the screens 4K, HD, 4K is joined as
\* "4K & HD"
C4_Witness ==
    /\ Processing
    /\ Len(processed_data) = 1
    /\ ColumnOf(df.data, "PANTALLA") = << <<"4", "K">>, <<"H", "D">>, <<"4", "K">> >>
    /\ Len(df_grouped.data) = 1
    /\ df_grouped.data[1]["PANTALLA"] = <<"4", "K", " ", "&", " ", "H", "D">>

\* ---- partition by owner ---------------------------------------------------

OwnerCodes == {df_sellers.data[i]["SIGLAS"] : i \in DOMAIN df_sellers.data}

\* the last reference row that carries the code
LastWithCode(code) ==
    df_sellers.data[CHOOSE i \in DOMAIN df_sellers.data :
                        /\ df_sellers.data[i]["SIGLAS"] = code
                        /\ \A j \in DOMAIN df_sellers.data :
                               df_sellers.data[j]["SIGLAS"] = code => j <= i]

\* C5 (as stated): the mapping has one entry per reference row.
C5_OneEntryPerReferenceRow ==
    Processing => Len(data_by_type) = Len(df_sellers.data)

\* C5 (amended): the mapping has one entry per distinct owner code of the
\* reference table: reference rows that share a code share one entry, which
\* holds the rows matched by the last of them; a code that matches no row has
\* an entry with no rows.
C5_OneEntryPerOwnerCode ==
    Processing =>
        /\ Len(data_by_type) = Cardinality(OwnerCodes)
        /\ {data_by_type[k].key : k \in DOMAIN data_by_type} = OwnerCodes
        /\ \A k \in DOMAIN data_by_type :
              LET ref == LastWithCode(data_by_type[k].key)
                  col == IF user_type = "seller" THEN "VENDEDOR" ELSE "TELEFONO"
                  val == IF user_type = "seller" THEN ref["SIGLAS"] ELSE ref["TELEFONO"]
              IN data_by_type[k].value.data =
                     Pick(df_cleaned.data,
                          {i \in DOMAIN df_cleaned.data : df_cleaned.data[i][col] = val})

\* C5 witness: two reference rows with the code "AB" give a mapping of one
\* entry, and a code with no rows has an entry with no rows
C5_Witness ==
    /\ Processing
    /\ Len(df_sellers.data) = 2
    /\ df_sellers.data[1]["SIGLAS"] = df_sellers.data[2]["SIGLAS"]
    /\ Len(data_by_type) = 1
    /\ Len(df_cleaned.data) > 0
    /\ data_by_type[1].value.data = <<>>

\* ---- final table ----------------------------------------------------------

\* C6 (as stated): the table returned by the run has exactly the fields
\* owner, customer, phone and message (FINAL_COLUMNS).
C6_FinalTableHasFinalColumns ==
    pc = "returned" => Range(result_df.columns) = Range(FINAL_COLUMNS)

\* ---- parsing of CORTE and VALOR -------------------------------------------

\* clean_data has been called on a table with rows and all required columns
ParsingReached ==
    /\ CleanCalled
    /\ Len(df.index) > 0
    /\ \A k \in DOMAIN DESIRED_COLUMNS : DESIRED_COLUMNS[k] \in Range(df.columns)

InvalidNumeric ==
    \E k \in DOMAIN error.msg :
        error.msg[k] = "Error processing 'VALOR' column: Invalid numeric values found"

InvalidBoolean ==
    \E k \in DOMAIN error.msg :
        error.msg[k] = "Error processing 'CORTE' column: Invalid boolean values found"

\* the text without its leading "$", and without any "$"
WithoutLeadingDollar(text) ==
    IF text # <<>> /\ Head(text) = "$" THEN Tail(text) ELSE text
WithoutDollars(text) == Pick(text, {k \in DOMAIN text : text[k] # "$"})

\* a decimal number: an optional sign, digits, at most one point
IsDecimalText(text) ==
    LET body == IF text # <<>> /\ Head(text) \in {"+", "-"} THEN Tail(text) ELSE text
    IN /\ \E k \in DOMAIN body : body[k] \in Range(Digits)
       /\ \A k \in DOMAIN body : body[k] \in Range(Digits) \cup {"."}
       /\ Cardinality({k \in DOMAIN body : body[k] = "."}) <= 1

CorteLiterals == {<<>>, <<"T", "R", "U", "E">>, <<"F", "A", "L", "S", "E">>}

\* C7 (as stated): when the amounts parse, a row whose CORTE is neither empty
\* nor "TRUE" nor "FALSE" makes cleaning fail with the invalid-boolean error.
C7_InvalidCorteFails ==
    (/\ ParsingReached
     /\ \A i \in DOMAIN df.data : IsDecimalText(WithoutDollars(df.data[i]["VALOR"]))
     /\ \E i \in DOMAIN df.data : df.data[i]["CORTE"] \notin CorteLiterals)
        => (~Cleaned /\ InvalidBoolean)

\* C8 (as stated): a non-empty VALOR whose text after the removal of a
\* leading "$" only is not a decimal number makes cleaning fail.
C8_OnlyLeadingDollarStripped ==
    (/\ ParsingReached
     /\ \E i \in DOMAIN df.data :
           /\ df.data[i]["VALOR"] # <<>>
           /\ ~IsDecimalText(WithoutLeadingDollar(df.data[i]["VALOR"])))
        => (~Cleaned /\ InvalidNumeric)

\* C8 (amended): every "$" of a VALOR is removed before it is parsed. A
\* non-empty VALOR whose text without any "$" is not a number makes cleaning
\* fail with the invalid-numeric error; when every VALOR is non-empty and is a
\* number once its "$" are removed ("1$0" is 10), cleaning returns a table.
C8_EveryDollarStripped ==
    ParsingReached =>
        /\ (\E i \in DOMAIN df.data :
               /\ df.data[i]["VALOR"] # <<>>
               /\ ~IsDecimalText(WithoutDollars(df.data[i]["VALOR"])))
              => (~Cleaned /\ InvalidNumeric)
        /\ (\A i \in DOMAIN df.data :
               /\ df.data[i]["VALOR"] # <<>>
               /\ IsDecimalText(WithoutDollars(df.data[i]["VALOR"])))
              => (Cleaned /\ ~InvalidNumeric)

\* C8 witness: the amount "1$0" is accepted and its row kept, while the run
\* went on past the cleaning
C8_Witness ==
    /\ Cleaned
    /\ Len(df.data) = 1
    /\ df.data[1]["VALOR"] = <<"1", "$", "0">>
    /\ df_cleaned.index = <<0>>

\* C9 (as stated): an empty VALOR never makes cleaning fail: when every VALOR
\* is empty or a number and every CORTE is a known literal, cleaning returns
\* a table, without the rows whose VALOR is empty.
C9_EmptyValorDropsRow ==
    (/\ ParsingReached
     /\ \A i \in DOMAIN df.data :
           /\ df.data[i]["VALOR"] = <<>> \/ IsDecimalText(WithoutDollars(df.data[i]["VALOR"]))
           /\ df.data[i]["CORTE"] \in CorteLiterals)
        => /\ Cleaned
           /\ \A i \in DOMAIN df.data :
                 df.data[i]["VALOR"] = <<>> => df.index[i] \notin Range(df_cleaned.index)

\* ---- preconditions of clean_data ------------------------------------------

MissingColumns ==
    Pick(DESIRED_COLUMNS,
         {k \in DOMAIN DESIRED_COLUMNS : DESIRED_COLUMNS[k] \notin Range(df.columns)})

\* the outcome of a call that fails with e before any transformation
FailsWith(e) == error' = e /\ df_cleaned' = NoFrame /\ pc' = "raised"

\* C10 (as stated): a call of clean_data on a table with zero rows fails with
\* the empty-input error; otherwise, on a table that lacks a required column,
\* it fails with the missing-columns error that names every absent column.
C10_ZeroRowsThenMissingColumns ==
    [][CleanData =>
          /\ Len(df.index) = 0 => FailsWith(ValueError("Input DataFrame is empty"))
          /\ (Len(df.index) > 0 /\ MissingColumns # <<>>)
                => FailsWith(KeyError("Missing required columns", MissingColumns))]_vars

\* C10 (amended): a call of clean_data on a table with zero rows or zero
\* columns fails with the empty-input error; otherwise, on a table that lacks
\* a required column, it fails with the missing-columns error that names
\* every absent column, whatever its rows hold; both leave no result, and an
\* error of the later steps carries the prefix "Error cleaning data".
C10_EmptyThenMissingColumns ==
    [][CleanData =>
          /\ (Len(df.index) = 0 \/ Len(df.columns) = 0)
                => FailsWith(ValueError("Input DataFrame is empty"))
          /\ (Len(df.index) > 0 /\ Len(df.columns) > 0 /\ MissingColumns # <<>>)
                => FailsWith(KeyError("Missing required columns", MissingColumns))
          /\ (Len(df.index) > 0 /\ MissingColumns = <<>> /\ pc' = "raised")
                => error'.msg[1] = "Error cleaning data"]_vars

\* C10 witness: a table whose first row has an unparsable amount and that
\* lacks CONTACTO and DIAS has failed with the error that names both
C10_Witness ==
    /\ pc = "raised"
    /\ error = KeyError("Missing required columns", <<"CONTACTO", "DIAS">>)
    /\ Len(df.data) = 2
    /\ "VALOR" \in Range(df.columns)
    /\ df.data[1]["VALOR"] = <<"x">>

\* ---- phone composer --------------------------------------------------------

\* the stage calls of the last step that are calls of op
CallsOf(op) == {k \in DOMAIN calls : calls[k].op = op}

\* C11: a call of add_phone_column on a table that lacks INDICATIVO or
\* CONTACTO fails with the missing-columns error naming the absent ones,
\* returns no table and leaves the table handed in as it was, without a
\* TELEFONO; on a table that has both it returns a table with as many rows
\* whose TELEFONO is INDICATIVO, one space, CONTACTO, so equal pairs give
\* equal phones.
C11_PhoneComposer ==
    \A k \in CallsOf("add_phone_column") :
        LET c == calls[k]
            absent == Pick(<<"INDICATIVO", "CONTACTO">>,
                           {n \in 1..2 :
                               <<"INDICATIVO", "CONTACTO">>[n] \notin Range(c.before.columns)})
        IN IF absent # <<>>
           THEN /\ ~c.ok
                /\ c.error = KeyError("Missing required columns", absent)
                /\ c.df = NoFrame
                /\ c.after = c.before
                /\ "TELEFONO" \notin Range(c.after.columns)
           ELSE /\ c.ok
                /\ "TELEFONO" \in Range(c.df.columns)
                /\ Len(c.df.data) = Len(c.before.data)
                /\ \A i \in DOMAIN c.df.data :
                      c.df.data[i]["TELEFONO"] =
                          c.before.data[i]["INDICATIVO"] \o <<" ">>
                              \o c.before.data[i]["CONTACTO"]
                /\ \A i, j \in DOMAIN c.df.data :
                      (/\ c.before.data[i]["INDICATIVO"] = c.before.data[j]["INDICATIVO"]
                       /\ c.before.data[i]["CONTACTO"] = c.before.data[j]["CONTACTO"])
                          => c.df.data[i]["TELEFONO"] = c.df.data[j]["TELEFONO"]

\* C11 witness: a call on a table of two rows that has CONTACTO and lacks
\* INDICATIVO has failed and left the table as it was
C11_Witness ==
    /\ pc = "raised"
    /\ CallsOf("add_phone_column") = {1}
    /\ ~calls[1].ok
    /\ Len(calls[1].before.data) = 2
    /\ "CONTACTO" \in Range(calls[1].before.columns)
    /\ calls[1].error.cols = <<"INDICATIVO">>
    /\ df = calls[1].before

\* ---- inputs of the stages -------------------------------------------------

\* C12 (as stated): after a successful call of a stage the table handed in
\* has the columns and rows it had before the call, and the table returned is
\* a new one.
C12_NoStageMutatesItsInput ==
    \A k \in DOMAIN calls :
        calls[k].ok => (calls[k].after = calls[k].before /\ ~calls[k].same)

\* ---- aggregator -----------------------------------------------------------

\* C13: the table process_data returns has exactly one row per (owner,
\* customer, phone) of its input: every input row's triple is the triple of
\* one output row, no two output rows share a triple, every output row's
\* triple is that of some input row, and the row's SERVICIO joins the labels
\* of all the platforms of the triple's rows.
C13_OneRowPerCustomer ==
    \A k \in CallsOf("process_data") :
        calls[k].ok =>
            LET rows == calls[k].before.data
                out == calls[k].df.data
            IN /\ \A i \in DOMAIN rows :
                     \E g \in DOMAIN out : \A c \in CustomerKey : out[g][c] = rows[i][c]
               /\ \A g, h \in DOMAIN out :
                     (\A c \in CustomerKey : out[g][c] = out[h][c]) => g = h
               /\ \A g \in DOMAIN out :
                     /\ RowsLike(rows, out[g], CustomerKey) # <<>>
                     /\ out[g]["SERVICIO"] =
                            ServiceText(RowsLike(rows, out[g], CustomerKey),
                                        Ascending(Range(ColumnOf(
                                            RowsLike(rows, out[g], CustomerKey),
                                            "PLATAFORMA"))))

\* C13 witness: three input rows, two of one customer on two platforms and
\* one of another customer, have given two output rows
C13_Witness ==
    /\ CallsOf("process_data") # {}
    /\ LET c == calls[CHOOSE k \in CallsOf("process_data") : TRUE] IN
          /\ c.ok
          /\ Len(c.before.data) = 3
          /\ c.before.data[1]["CLIENTE"] = c.before.data[2]["CLIENTE"]
          /\ c.before.data[1]["PLATAFORMA"] # c.before.data[2]["PLATAFORMA"]
          /\ c.before.data[3]["CLIENTE"] # c.before.data[1]["CLIENTE"]
          /\ Len(c.df.data) = 2

\* ---- message composer -----------------------------------------------------

\* the first whitespace-delimited token of a text, empty when it has none
RECURSIVE FirstName(_)
FirstName(text) ==
    IF text = <<>> THEN <<>>
    ELSE IF Head(text) \in Whitespace THEN FirstName(Tail(text))
    ELSE IF Len(text) = 1 \/ text[2] \in Whitespace THEN <<Head(text)>>
    ELSE <<Head(text)>> \o FirstName(Tail(text))

\* the message of a record with the given customer and services
MessageOf(customer, day_phrase, services) ==
    <<"H", "o", "l", "a", ",", " ">> \o FirstName(customer)
        \o <<".", " ", "B", "u", "e", "n", " ", "d", "U+00ED", "a", ".", " ">>
        \o day_phrase
        \o <<" ", "o", "t", "r", "o", " ", "m", "e", "s", " ", "d", "e", " ">>
        \o services
        \o <<".", " ", "U+00BF", "D", "e", "s", "e", "a", " ",
             "c", "o", "n", "t", "i", "n", "u", "a", "r", "?">>

\* C14 (as stated): a call of add_message_column on a table that has CLIENTE
\* and SERVICIO returns a table where every record's MENSAJE is the string
\* "Hola, " + first name + ". Buen dia. " + day phrase + " otro mes de " +
\* services + ". Desea continuar?", the first name being the first
\* whitespace-delimited token of the record's customer.
C14_EveryRecordHasItsMessage ==
    \A k \in CallsOf("add_message_column") :
        ({"CLIENTE", "SERVICIO"} \subseteq Range(calls[k].before.columns)) =>
            /\ calls[k].ok
            /\ Len(calls[k].df.data) = Len(calls[k].before.data)
            /\ \A i \in DOMAIN calls[k].df.data :
                  /\ ~IsNA(calls[k].df.data[i]["MENSAJE"])
                  /\ calls[k].df.data[i]["MENSAJE"] =
                         MessageOf(calls[k].before.data[i]["CLIENTE"], message_day,
                                   calls[k].before.data[i]["SERVICIO"])

\* ---- failures of the entry point ------------------------------------------

\* the context each stage of get_info_of_customers puts on its failure
StageOfFailure ==
    IF FetchFails
    THEN {"Data retrieval error", "Invalid worksheet data: insufficient rows",
          "Error processing sellers data"}
    ELSE IF CleanCustomerData
    THEN {"No customer data found in worksheet", "Error cleaning customer data"}
    ELSE IF FilterByUserType THEN {"Error filtering data by user type"}
    ELSE IF ProcessUser THEN {"Error processing data by type"}
    ELSE {"Error combining processed data"}

\* a step of the entry point get_info_of_customers
EntryPointStep ==
    FetchFails \/ CleanCustomerData \/ FilterByUserType \/ ProcessUser \/ CombineProcessed

C16_CleanedRowsHaveOwnerAndCustomer ==
    Cleaned =>
        \A i \in DOMAIN df_cleaned.data :
            df_cleaned.data[i]["VENDEDOR"] # <<>> /\ df_cleaned.data[i]["CLIENTE"] # <<>>

\* ---- buckets of the partition ----------------------------------------------

\* the labels of the cleaned rows in the k-th bucket
BucketLabels(k) == Range(data_by_type[k].value.index)

\* C17 (as stated): in either mode no cleaned row is in the buckets of two
\* owner codes.
C17_BucketsDisjoint ==
    Processing =>
        \A k, l \in DOMAIN data_by_type :
            k # l => BucketLabels(k) \cap BucketLabels(l) = {}

\* C17 (amended): in seller mode no cleaned row is in the buckets of two owner
\* codes; in reseller mode the buckets of two codes are disjoint when the
\* reference rows of the codes have different phones, and hold the same rows
\* when they have the same phone.
C17_BucketsDisjointUnlessSamePhone ==
    Processing =>
        \A k, l \in DOMAIN data_by_type :
            k # l =>
                IF /\ user_type = "reseller"
                   /\ LastWithCode(data_by_type[k].key)["TELEFONO"] =
                          LastWithCode(data_by_type[l].key)["TELEFONO"]
                THEN data_by_type[k].value = data_by_type[l].value
                ELSE BucketLabels(k) \cap BucketLabels(l) = {}

\* C17 witness: in reseller mode two codes with one phone have the same
\* non-empty bucket
C17_Witness ==
    /\ Processing
    /\ user_type = "reseller"
    /\ Len(data_by_type) = 2
    /\ data_by_type[1].value = data_by_type[2].value
    /\ BucketLabels(1) # {}

\* ---- rows of no owner, rows of another day --------------------------------

\* the cleaned rows of a reference owner that fall on the target day
MatchedDayRows ==
    Pick(df_cleaned.data,
         {i \in DOMAIN df_cleaned.data :
             /\ df_cleaned.data[i]["VENDEDOR"] \in OwnerCodes
             /\ df_cleaned.data[i]["DIAS"] = index_day})

\* C18: in seller mode the partition never fails, a cleaned row whose
\* VENDEDOR is no code of the reference table is in no bucket, and every
\* record of the final table has an owner that is a code of the reference
\* table, and is made of the cleaned rows of its (owner, customer, phone)
\* that fall on the target day and of nothing else.
C18_UnmatchedRowsAreLeftOut ==
    (user_type = "seller" /\ Cleaned) =>
        /\ \A k \in DOMAIN error.msg : error.msg[k] # "Error filtering data by user type"
        /\ Processing =>
              \A i \in DOMAIN df_cleaned.data :
                  df_cleaned.data[i]["VENDEDOR"] \notin OwnerCodes =>
                      \A k \in DOMAIN data_by_type :
                          df_cleaned.index[i] \notin BucketLabels(k)
        /\ \A r \in DOMAIN result_df.data :
              /\ result_df.data[r]["VENDEDOR"] \in OwnerCodes
              /\ RowsLike(MatchedDayRows, result_df.data[r], CustomerKey) # <<>>
              /\ result_df.data[r]["SERVICIO"] =
                     ServiceText(RowsLike(MatchedDayRows, result_df.data[r], CustomerKey),
                                 Ascending(Range(ColumnOf(
                                     RowsLike(MatchedDayRows, result_df.data[r], CustomerKey),
                                     "PLATAFORMA"))))

\* C18 witness: of two cleaned rows of the target day, one of an owner that
\* is no code of the reference table, the final table has one record
C18_Witness ==
    /\ pc = "returned"
    /\ user_type = "seller"
    /\ Len(df_cleaned.data) = 2
    /\ df_cleaned.data[1]["VENDEDOR"] \notin OwnerCodes
    /\ df_cleaned.data[1]["DIAS"] = index_day
    /\ df_cleaned.data[2]["VENDEDOR"] \in OwnerCodes
    /\ Len(result_df.data) = 1

\* ---- empty final table ----------------------------------------------------

\* C19: a table returned by get_info_of_customers has at least one record;
\* when the cleaner returned and no cleaned row is of a reference owner on
\* the target day, the run (in seller mode) ends with the error "No valid
\* data after processing" of the combining stage and returns nothing.
C19_NeverAnEmptyFinalTable ==
    /\ result_df # NoFrame => Len(result_df.data) >= 1
    /\ pc = "returned" => Len(result_df.data) >= 1
    /\ (user_type = "seller" /\ Cleaned /\ MatchedDayRows = <<>>
            /\ pc \notin {"cleaned", "filtered"})
          => /\ pc = "raised"
             /\ result_df = NoFrame
             /\ error.msg = <<"Unexpected error in get_info_of_customers",
                              "Error combining processed data",
                              "No valid data after processing">>

\* C19 witness: cleaned rows there were, none of a reference owner on the
\* target day, and the run has ended with the error
C19_Witness ==
    /\ pc = "raised"
    /\ Len(df_cleaned.data) > 0
    /\ MatchedDayRows = <<>>
    /\ Len(error.msg) = 3
    /\ error.msg[3] = "No valid data after processing"

\* ---- dispatch script ------------------------------------------------------

\* the positions of the events of a kind
EventsOf(kinds) == {k \in DOMAIN events : events[k].kind \in kinds}

\* the records the browser was opened on, in order, with the browser
Opened ==
    LET at == Pick(events, EventsOf({"open"}))
    IN [k \in DOMAIN at |-> <<at[k].browser, at[k].customer>>]

\* the records of an owner in the final table, in table order, with a browser
RecordsOf(owner, browser) ==
    LET recs == Pick(result_df.data,
                     {r \in DOMAIN result_df.data : result_df.data[r]["VENDEDOR"] = owner})
    IN [k \in DOMAIN recs |-> <<browser, recs[k]>>]

\* the dispatches of a confirmed run: those of BGL, then those of SAG
DispatchOrder ==
    RecordsOf(VEND_INI_EDGE, WSP_BGL) \o RecordsOf(VEND_INI_CHROME, WSP_SAG)

\* what the script keeps whether or not a send fails: a browser launch, a log
\* entry or a closing of a tab comes only after the confirmation dialog has
\* returned yes, after a no there is none of them, the records dispatched so
\* far are a prefix of DispatchOrder, each logged once, nothing follows the
\* end dialog, and after a no the end dialog is the next step
DispatchOnlyAfterYes ==
    /\ \A k \in EventsOf({"open", "log", "close"}) :
          /\ answer = "yes"
          /\ \E j \in EventsOf({"confirm"}) : j < k
    /\ answer = "no" => EventsOf({"open", "log", "close"}) = {}
    /\ Len(Opened) <= Len(DispatchOrder)
    /\ Opened = SubSeq(DispatchOrder, 1, Len(Opened))
    /\ Cardinality(EventsOf({"log"})) = Len(Opened)
    /\ \A k \in EventsOf({"end"}) : k = Len(events)
    /\ pc = "cancelled" => ENABLED ShowEndDialog
    /\ (pc = "done" /\ answer = "no") => events[Len(events)].kind = "end"

\* C20 (as stated): no dispatch step comes before the confirmation dialog
\* has returned yes; after a no nothing is dispatched and nothing is logged;
\* in both cases the script ends with the end dialog shown after the last
\* dispatch, and a confirmed run has by then dispatched every record of BGL
\* and then every record of SAG, each once, in table order.
C20_EveryConfirmedRunDispatchesAll ==
    /\ DispatchOnlyAfterYes
    /\ (pc \in {"done", "aborted"} /\ answer = "yes") =>
          /\ events[Len(events)].kind = "end"
          /\ Opened = DispatchOrder

\* C20 (amended): no dispatch step comes before the confirmation dialog has
\* returned yes; after a no nothing is dispatched and nothing is logged and
\* the end dialog is shown; a confirmed run in which no send raises
\* dispatches every record of BGL and then every record of SAG, each once, in
\* table order, and then shows the end dialog; a confirmed run in which a
\* send raises ends there, with a prefix of that order dispatched and without
\* the end dialog.
C20_DispatchAfterConfirmation ==
    /\ DispatchOnlyAfterYes
    /\ (pc = "sending" /\ Len(Opened) = Len(DispatchOrder)) => ENABLED ShowEndDialog
    /\ (pc = "done" /\ answer = "yes") =>
          /\ events[Len(events)].kind = "end"
          /\ Opened = DispatchOrder
    /\ pc = "aborted" =>
          /\ answer = "yes"
          /\ EventsOf({"end"}) = {}
          /\ Len(Opened) < Len(DispatchOrder)
          /\ ~ENABLED Next

\* C20 witness: a confirmed run over a final table whose first record is of
\* SAG and whose second is of BGL has dispatched BGL's, then SAG's, and has
\* shown the end dialog
C20_Witness ==
    /\ pc = "done"
    /\ answer = "yes"
    /\ Len(result_df.data) = 2
    /\ result_df.data[1]["VENDEDOR"] = VEND_INI_CHROME
    /\ result_df.data[2]["VENDEDOR"] = VEND_INI_EDGE
    /\ Len(Opened) = 2
    /\ Opened[1][2]["VENDEDOR"] = VEND_INI_EDGE
    /\ Opened[2][2]["VENDEDOR"] = VEND_INI_CHROME

\* ---- a send that fails the country-code check ------------------------------

\* the phone of a record carries a country code: it has a "+" or a "_"
HasCountryCode(record) ==
    \E n \in DOMAIN record["TELEFONO"] : record["TELEFONO"][n] \in {"+", "_"}

\* the positions of the events of a kind about a record
EventsAbout(kinds, record) ==
    {k \in EventsOf(kinds) : events[k].customer = record}

\* the record send_messages_to_customers is about to send
NextRecord == DispatchOrder[Len(Opened) + 1][2]

\* what holds in every state: no browser launch, wait, log entry or closing
\* of a tab is about a record without a country code; each record dispatched
\* has one launch, then one wait, then one log entry, then one closing of its
\* tab; and once the run has aborted on the country-code check of the k-th
\* record, the k-1 records before it are the ones dispatched, each logged
\* once, there is nothing about the k-th or a later record, and no step
\* follows.
DispatchUpToFailedCheck ==
    /\ \A k \in EventsOf({"open", "wait", "log", "close"}) :
          HasCountryCode(events[k].customer)
    /\ \A n \in DOMAIN Opened :
          \E o, w, l, c \in DOMAIN events :
              /\ o < w /\ w < l /\ l < c
              /\ EventsAbout({"open"}, Opened[n][2]) = {o}
              /\ EventsAbout({"wait"}, Opened[n][2]) = {w}
              /\ EventsAbout({"log"}, Opened[n][2]) = {l}
              /\ EventsAbout({"close"}, Opened[n][2]) = {c}
    /\ (pc = "aborted" /\ error.type = "CountryCodeException") =>
          /\ Len(Opened) < Len(DispatchOrder)
          /\ ~HasCountryCode(NextRecord)
          /\ Opened = SubSeq(DispatchOrder, 1, Len(Opened))
          /\ \A n \in 1..Len(Opened) :
                Cardinality(EventsAbout({"log"}, DispatchOrder[n][2])) = 1
          /\ \A n \in (Len(Opened) + 1)..Len(DispatchOrder) :
                EventsAbout({"open", "wait", "log", "close"}, DispatchOrder[n][2]) = {}
          /\ EventsOf({"end"}) = {}
          /\ ~ENABLED Next

\* a send on a record without a country code raises CountryCodeException,
\* adds no event and ends the run
FailedCheckAborts ==
    (SendWspMsg /\ ~HasCountryCode(NextRecord)) =>
        /\ events' = events
        /\ pc' = "aborted"
        /\ error'.type = "CountryCodeException"

\* C21: during dispatch, when the k-th record's phone fails the country-code
\* check, send_wsp_msg raises before the browser is opened or a log entry is
\* written for that record, the run aborts, no later record is dispatched or
\* logged, and the k-1 earlier records stay dispatched with exactly one log
\* entry each; the log entry of a record comes after its browser launch and
\* wait and before the closing of its tab.
C21_FailedCheckAbortsDispatch ==
    []DispatchUpToFailedCheck /\ [][FailedCheckAborts]_vars

\* C21 witness: the first record of BGL was dispatched and logged, the second
\* has no country code, and the run has aborted on it
C21_Witness ==
    /\ pc = "aborted"
    /\ error.type = "CountryCodeException"
    /\ Len(DispatchOrder) = 2
    /\ Len(Opened) = 1
    /\ Cardinality(EventsOf({"log"})) = 1
    /\ ~HasCountryCode(DispatchOrder[2][2])

=============================================================================
